---- MODULE Spec2Model ----
(***************************************************************************)
(* Model of the multithreaded request dispatcher of generate_VQA.py:       *)
(* the seeding of request_queue, the worker_task loop of every worker      *)
(* thread, queue.Queue's unfinished_tasks accounting (put / get /          *)
(* task_done / join) and the main thread's shutdown.                       *)
(*                                                                         *)
(* A worker's position (pc) names the statement it executes next; one      *)
(* action is one statement that touches shared state (the queue, the       *)
(* result directory, the counter) together with the local statements       *)
(* that follow it.                                                         *)
(***************************************************************************)
EXTENDS Integers, Sequences, FiniteSets, TLC

\* ------------------------------------------------------------------ bounds
\* Number of requests in api_requests_file.
NumJobs == 2
\* max_consecutive_errors of worker_task; the source sets 100 (line 124),
\* the model scales it so that the ceiling is reached.
max_consecutive_errors == 2
\* Number of runs of the script over the same output_dir.
MaxRuns == 2
\* Number of requests of the all-failing job list of SpecPoison.
NumPoisonJobs == 7
\* Number of keys in GEMINI_API_KEY.
NumKeys == 3
\* Number of get_next_api_key calls the threads of SpecKeys make.
MaxCalls == 5
\* Bits of a float's significand, and of a random.random() outcome; the
\* source's doubles have 53, the model scales it.
MantissaBits == 5

\* -------------------------------------------------------- program constants
num_workers == 3
Workers == 1..num_workers

\* request_queue.put(None): the stop signal.
None == 0
\* `request` before the first get().
NoRequest == -1

\* api_handler before the thread has created one.
NoHandler == [api_key |-> "none", model_name |-> "none"]
\* key_manager.lock when no thread holds it.
Unlocked == 0

\* os.getenv("GEMINI_API_KEY").split(","): n keys.
KeyNames == <<"key1", "key2", "key3", "key4", "key5">>
ApiKeys(n) == SubSeq(KeyNames, 1, n)

\* ------------------------------------------------------------- the requests
\* The image_hash values of the metadata files.
Hashes == <<"h1", "h2", "h3", "h4", "h5", "h6", "h7", "h8">>

VARIABLES
    image_hash,          \* metadata["image_hash"] of every request
    api_requests,        \* the loaded (then shuffled) list of requests
    files,               \* generated_response_files that exist in output_dir
    request_queue,       \* Queue.queue
    unfinished_tasks,    \* Queue.unfinished_tasks
    no_of_skipped,
    completed_counter,   \* ThreadSafeCounter.value
    dpc,                 \* position of the main thread
    sentinels_put,       \* iterations done of `for _ in range(num_workers)`
    interrupted,         \* KeyboardInterrupt was raised in request_queue.join()
    run,                 \* which run of the script this is
    pc,                  \* position of each worker
    request,             \* worker's local `request` while it is in use
    consecutive_errors,  \* worker's local `consecutive_errors`
    error_msg,           \* kind of the exception the except clause handled
    flow,                \* how the try statement is being left
    exit_reason,         \* why the worker left `while True`
    api_handler,         \* worker's local `api_handler`: its key and model
    \* APIKeyManager
    api_keys,            \* key_manager.api_keys
    api_key,             \* key_manager.api_key
    key_index,           \* key_manager.key_index
    model_name,          \* key_manager._model_name
    lock,                \* key_manager.lock: Unlocked or the holding thread
    kpc,                 \* position of a thread inside get_next_api_key
    key,                 \* local `key` of get_next_api_key
    returned,            \* history: the keys get_next_api_key returned, in order
    \* history variables (observations, never read by the program)
    ack_calls,           \* task_done() calls made for the item being handled
    late_error,          \* a task_done() raised ValueError after the interrupt
    seeded,              \* requests put by the seeding loop of this run
    prefiles,            \* files that existed when this run seeded
    failed,              \* some attempt of this run raised
    processed,           \* requests whose result some worker has persisted
    processed_before,    \* requests persisted by an earlier run
    dropped,             \* requests a worker of this run gave up at the ceiling
    timed,               \* the time.sleep calls of this run are observed
    sleeps,              \* when timed: the sleeps of the worker's iteration
    before_stop          \* per queued item: it was put before the first stop signal

vars == <<image_hash, api_requests, files, request_queue, unfinished_tasks, no_of_skipped,
          completed_counter, dpc, sentinels_put, interrupted, run, pc, request,
          consecutive_errors, error_msg, flow, exit_reason, ack_calls, late_error,
          seeded, prefiles, failed, processed, processed_before, api_handler,
          api_keys, api_key, key_index, model_name, lock, kpc, key, returned,
          dropped, timed, sleeps, before_stop>>

key_vars == <<api_keys, api_key, key_index, model_name, lock, kpc, key, returned>>
worker_vars == <<pc, request, consecutive_errors, error_msg, flow, exit_reason>>
ack_vars == <<ack_calls, late_error>>
history_vars == <<seeded, prefiles, failed, processed, processed_before>>

\* ------------------------------------------------------ result locations
\* request["image_path"] = str(images_path / f"{image_hash}.jpg"), as the
\* sequence of its path components; the last one is <<stem, extension>>.
ImagePath(j) == <<"datasets", "images", <<image_hash[j], ".jpg">> >>

\* os.path.basename(path): the last path component.
Basename(path) == path[Len(path)]

\* str.replace(".jpg", ""): every occurrence of the token is removed.
ReplaceJpg(name) == SelectSeq(name, LAMBDA t : t # ".jpg")

\* Path(output_dir) / f"{image_id}_response.json"
GeneratedResponseFile(j) == ReplaceJpg(Basename(ImagePath(j))) \o <<"_response.json">>

\* ------------------------------------------------------------ pure helpers
Range(s) == {s[i] : i \in 1..Len(s)}

\* All orders random.shuffle can leave a list in.
Shuffles(s) ==
    {p \in [1..Len(s) -> Range(s)] : \A i, k \in 1..Len(s) : i # k => p[i] # p[k]}

\* Mutant of SeedQueue: the existence test is dropped, every request is put.
SeedQueueAll(reqs, existing) == reqs

\* The seeding loop: the requests whose response file does not exist, in order.
SeedQueue(reqs, existing) ==
    SelectSeq(reqs, LAMBDA j : GeneratedResponseFile(j) \notin existing)

\* The seeding loop: how many requests take the `else: no_of_skipped += 1` branch.
SeedSkipped(reqs, existing) ==
    Len(SelectSeq(reqs, LAMBDA j : GeneratedResponseFile(j) \in existing))

\* Queue.task_done raises ValueError when unfinished_tasks - 1 < 0.
TaskDoneRaises == unfinished_tasks - 1 < 0

\* Queue.task_done: unfinished_tasks after the call (unchanged when it raises).
TaskDone == IF TaskDoneRaises THEN unfinished_tasks ELSE unfinished_tasks - 1

\* ------------------------------------------------------------ float values
\* A float is [m, e], the value m * 2^e, with m below 2^MantissaBits.
BitLength(n) == CHOOSE b \in 0..31 : (b = 0 \/ 2^(b - 1) <= n) /\ n < 2^b

\* The float nearest to n * 2^e, ties to the even significand.
RoundBits(n, e) ==
    LET s == BitLength(n) - MantissaBits
    IN  IF s <= 0 THEN [m |-> n, e |-> e]
        ELSE LET q == n \div 2^s
                 rem == n % 2^s
                 half == 2^(s - 1)
                 up == rem > half \/ (rem = half /\ q % 2 = 1)
             IN  [m |-> IF up THEN q + 1 ELSE q, e |-> e + s]

\* float(n) of a small int.
FloatInt(n) == [m |-> n, e |-> 0]

\* The float a decimal literal num/den (below 1) denotes.
FloatLit(num, den) ==
    LET s == CHOOSE t \in 0..24 :
                 /\ (num * 2^t) \div den >= 2^(MantissaBits - 1)
                 /\ (num * 2^t) \div den < 2^MantissaBits
        q == (num * 2^s) \div den
        rem == (num * 2^s) % den
        up == 2 * rem > den \/ (2 * rem = den /\ q % 2 = 1)
    IN  [m |-> IF up THEN q + 1 ELSE q, e |-> 0 - s]

MinExp(a, b) == IF a.e < b.e THEN a.e ELSE b.e

\* a * b and a + b of floats: the exact result, rounded.
FloatMul(a, b) == RoundBits(a.m * b.m, a.e + b.e)
FloatAdd(a, b) ==
    RoundBits(a.m * 2^(a.e - MinExp(a, b)) + b.m * 2^(b.e - MinExp(a, b)),
              MinExp(a, b))

\* a <= b of floats.
FloatLeq(a, b) ==
    a.m * 2^(a.e - MinExp(a, b)) <= b.m * 2^(b.e - MinExp(a, b))

\* random.random(): k / 2^MantissaBits for an integer k below 2^MantissaBits.
Random(k) == [m |-> k, e |-> 0 - MantissaBits]

\* The outcomes of random.random() a run draws from; one stands for all
\* when the sleeps are not observed.
RandomDraws == IF timed THEN 0..(2^MantissaBits - 1) ELSE {0}

\* Mutant of BackoffDelay: the random part is scaled by 8, not by 4.
BackoffDelayWide(k) == FloatAdd(FloatInt(4), FloatMul(FloatInt(8), Random(k)))

\* 4 + 4 * random.random() (line 198).
BackoffDelay(k) == FloatAdd(FloatInt(4), FloatMul(FloatInt(4), Random(k)))

\* 0.05 + 0.05 * random.random() (line 203).
CourtesyDelay(k) == FloatAdd(FloatLit(5, 100), FloatMul(FloatLit(5, 100), Random(k)))

\* time.sleep(delay) of worker w.
Sleep(w, kind, delay) ==
    sleeps' = IF timed THEN [sleeps EXCEPT ![w] = Append(@, <<kind, delay>>)]
              ELSE sleeps

\* ----------------------------------------------------------- APIKeyManager
\* APIKeyManager.__init__(api_keys): the first key is the active one.
KeyManagerInit(keys) ==
    /\ api_keys = keys
    /\ api_key = keys[1]
    /\ key_index = 0
    /\ model_name = "gemini-2.0-flash"
    /\ lock = Unlocked
    /\ kpc = [w \in Workers |-> "idle"]
    /\ key = [w \in Workers |-> "none"]
    /\ returned = <<>>

\* create_api_handler(): GeminiAPIHandler(api_key=self.api_key,
\* model_name=self.model_name). Neither field is written after __init__.
CreateApiHandler == [api_key |-> api_key, model_name |-> model_name]

\* ---------------------------------------------------------------- initial
InitCommon ==
    /\ sleeps = [w \in Workers |-> <<>>]
    /\ api_handler = [w \in Workers |-> NoHandler]
    /\ dropped = {}
    /\ request_queue = <<>>
    /\ before_stop = <<>>
    /\ unfinished_tasks = 0
    /\ no_of_skipped = 0
    /\ completed_counter = 0
    /\ dpc = "seed"
    /\ sentinels_put = 0
    /\ interrupted = FALSE
    /\ run = 1
    /\ pc = [w \in Workers |-> "not_started"]
    /\ request = [w \in Workers |-> NoRequest]
    /\ consecutive_errors = [w \in Workers |-> 0]
    /\ error_msg = [w \in Workers |-> "none"]
    /\ flow = [w \in Workers |-> "normal"]
    /\ exit_reason = [w \in Workers |-> "none"]
    /\ ack_calls = [w \in Workers |-> 0]
    /\ late_error = FALSE
    /\ seeded = {}
    /\ prefiles = {}
    /\ failed = FALSE
    /\ processed = {}
    /\ processed_before = {}

\* The script starts with the request file loaded and any subset of the
\* response files already in output_dir.
Init ==
    /\ InitCommon
    /\ timed = FALSE
    /\ KeyManagerInit(ApiKeys(NumKeys))
    /\ image_hash = [j \in 1..NumJobs |-> Hashes[j]]
    /\ api_requests = [i \in 1..NumJobs |-> i]
    /\ files \in SUBSET {GeneratedResponseFile(j) : j \in 1..NumJobs}

\* --------------------------------------------------------- the main thread
\* random.shuffle(api_requests), then the seeding loop (lines 232-248), then
\* APIKeyManager(api_keys), ThreadSafeCounter() and thread.start() for every
\* worker (lines 252-269); a started worker creates its api_handler (line 115).
\* No worker runs before the seeding loop has ended.
Seed ==
    /\ dpc = "seed"
    /\ \E shuffled \in Shuffles(api_requests) :
        /\ api_requests' = shuffled
        /\ request_queue' = SeedQueue(shuffled, files)
        /\ before_stop' = [i \in 1..Len(SeedQueue(shuffled, files)) |-> TRUE]
        /\ unfinished_tasks' = Len(SeedQueue(shuffled, files))
        /\ no_of_skipped' = SeedSkipped(shuffled, files)
        /\ seeded' = Range(SeedQueue(shuffled, files))
    /\ prefiles' = files
    /\ completed_counter' = 0
    /\ pc' = [w \in Workers |-> "fetch"]
    /\ api_handler' = [w \in Workers |-> CreateApiHandler]
    /\ dpc' = "join"
    /\ UNCHANGED <<timed, sleeps, image_hash, key_vars, dropped, files, sentinels_put, interrupted, run, request,
                   consecutive_errors, error_msg, flow, exit_reason, ack_vars, failed,
                   processed, processed_before>>

\* Mutant of JoinReturns: the main thread does not wait for the queue to
\* drain.
JoinReturnsEarly ==
    /\ dpc = "join"
    /\ dpc' = "stop"
    /\ UNCHANGED <<timed, sleeps, image_hash, key_vars, api_handler, dropped, api_requests, files, request_queue, before_stop, unfinished_tasks,
                   no_of_skipped, completed_counter, sentinels_put, interrupted,
                   run, pc, request, consecutive_errors, error_msg, flow,
                   exit_reason, ack_calls, late_error, seeded, prefiles, failed,
                   processed, processed_before>>

\* request_queue.join() returns: `while self.unfinished_tasks: wait()`.
JoinReturns ==
    /\ dpc = "join"
    /\ unfinished_tasks = 0
    /\ dpc' = "stop"
    /\ UNCHANGED <<timed, sleeps, image_hash, key_vars, api_handler, dropped, api_requests, files, request_queue, before_stop, unfinished_tasks,
                   no_of_skipped, completed_counter, sentinels_put, interrupted,
                   run, worker_vars, ack_vars, history_vars>>

\* KeyboardInterrupt while the main thread waits in request_queue.join().
Interrupt ==
    /\ dpc = "join"
    /\ interrupted' = TRUE
    /\ dpc' = "stop"
    /\ UNCHANGED <<timed, sleeps, image_hash, key_vars, api_handler, dropped, api_requests, files, request_queue, before_stop, unfinished_tasks,
                   no_of_skipped, completed_counter, sentinels_put, run,
                   worker_vars, ack_vars, history_vars>>

\* Mutant of PutSentinel: the stop signal is put at the head of the queue.
PutSentinelFirst ==
    /\ dpc = "stop"
    /\ request_queue' = <<None>> \o request_queue
    /\ before_stop' = <<FALSE>> \o before_stop
    /\ unfinished_tasks' = unfinished_tasks + 1
    /\ sentinels_put' = sentinels_put + 1
    /\ dpc' = IF sentinels_put + 1 = num_workers THEN "done" ELSE "stop"
    /\ UNCHANGED <<timed, sleeps, image_hash, key_vars, api_handler, dropped, api_requests, files, no_of_skipped, completed_counter,
                   interrupted, run, worker_vars, ack_vars, history_vars>>

\* One iteration of `for _ in range(num_workers): request_queue.put(None)`;
\* after the last one, `thread.join(timeout=2)` for every thread, which
\* returns whether or not the worker has finished.
PutSentinel ==
    /\ dpc = "stop"
    /\ request_queue' = Append(request_queue, None)
    /\ before_stop' = Append(before_stop, FALSE)
    /\ unfinished_tasks' = unfinished_tasks + 1
    /\ sentinels_put' = sentinels_put + 1
    /\ dpc' = IF sentinels_put + 1 = num_workers THEN "done" ELSE "stop"
    /\ UNCHANGED <<timed, sleeps, image_hash, key_vars, api_handler, dropped, api_requests, files, no_of_skipped, completed_counter,
                   interrupted, run, worker_vars, ack_vars, history_vars>>

\* The script is run again over the same request file and output_dir: a new
\* process, whose only inheritance is the content of output_dir.
Rerun ==
    /\ dpc = "done"
    /\ run < MaxRuns
    /\ run' = run + 1
    /\ api_requests' = [i \in 1..Len(api_requests) |-> i]
    /\ request_queue' = <<>>
    /\ before_stop' = <<>>
    /\ unfinished_tasks' = 0
    /\ no_of_skipped' = 0
    /\ completed_counter' = 0
    /\ dpc' = "seed"
    /\ sentinels_put' = 0
    /\ interrupted' = FALSE
    /\ pc' = [w \in Workers |-> "not_started"]
    /\ request' = [w \in Workers |-> NoRequest]
    /\ consecutive_errors' = [w \in Workers |-> 0]
    /\ error_msg' = [w \in Workers |-> "none"]
    /\ flow' = [w \in Workers |-> "normal"]
    /\ exit_reason' = [w \in Workers |-> "none"]
    /\ ack_calls' = [w \in Workers |-> 0]
    /\ late_error' = FALSE
    /\ seeded' = {}
    /\ prefiles' = {}
    /\ failed' = FALSE
    /\ processed_before' = processed
    /\ api_handler' = [w \in Workers |-> NoHandler]
    /\ dropped' = {}
    /\ sleeps' = [w \in Workers |-> <<>>]
    /\ UNCHANGED <<timed, image_hash, key_vars, files, processed>>

\* ------------------------------------------------------------- worker_task
\* Bookkeeping of one task_done() call by worker w.
NoteAck(w) ==
    /\ ack_calls' = [ack_calls EXCEPT ![w] = @ + 1]
    /\ late_error' = (late_error \/ (TaskDoneRaises /\ interrupted))

\* request = request_queue.get(timeout=5) returns an item (line 129), then
\* `if request is None` (line 136).
Get(w) ==
    /\ pc[w] = "fetch"
    /\ request_queue # <<>>
    /\ request' = [request EXCEPT ![w] = Head(request_queue)]
    /\ request_queue' = Tail(request_queue)
    /\ before_stop' = Tail(before_stop)
    /\ pc' = [pc EXCEPT ![w] = IF Head(request_queue) = None THEN "ack_stop" ELSE "check"]
    /\ sleeps' = [sleeps EXCEPT ![w] = <<>>]
    /\ UNCHANGED <<timed, image_hash, key_vars, api_handler, dropped, api_requests, files, unfinished_tasks, no_of_skipped,
                   completed_counter, dpc, sentinels_put, interrupted, run,
                   consecutive_errors, error_msg, flow, exit_reason, ack_vars,
                   history_vars>>

\* get(timeout=5) raises Empty: the queue stayed empty; the worker breaks
\* (lines 130-133).
GetTimeout(w) ==
    /\ pc[w] = "fetch"
    /\ request_queue = <<>>
    /\ pc' = [pc EXCEPT ![w] = "exited"]
    /\ exit_reason' = [exit_reason EXCEPT ![w] = "timeout"]
    /\ UNCHANGED <<timed, sleeps, image_hash, key_vars, api_handler, dropped, api_requests, files, request_queue, before_stop, unfinished_tasks,
                   no_of_skipped, completed_counter, dpc, sentinels_put,
                   interrupted, run, request, consecutive_errors, error_msg,
                   flow, ack_vars, history_vars>>

\* The worker leaves `while True`: its locals are dead from here on.
Exit(w, reason) ==
    /\ pc' = [pc EXCEPT ![w] = "exited"]
    /\ exit_reason' = [exit_reason EXCEPT ![w] = reason]
    /\ request' = [request EXCEPT ![w] = NoRequest]
    /\ error_msg' = [error_msg EXCEPT ![w] = "none"]
    /\ flow' = [flow EXCEPT ![w] = "normal"]

\* Mutant of AckStop: the worker acknowledges the stop signal and fetches
\* again.
AckStopContinues(w) ==
    /\ pc[w] = "ack_stop"
    /\ unfinished_tasks' = TaskDone
    /\ late_error' = (late_error \/ (TaskDoneRaises /\ interrupted))
    /\ pc' = [pc EXCEPT ![w] = "fetch"]
    /\ request' = [request EXCEPT ![w] = NoRequest]
    /\ UNCHANGED <<timed, sleeps, image_hash, key_vars, api_handler, dropped, api_requests, files, request_queue, before_stop,
                   no_of_skipped, completed_counter, dpc, sentinels_put,
                   interrupted, run, consecutive_errors, error_msg, flow,
                   exit_reason, ack_calls, history_vars>>

\* The stop signal: request_queue.task_done(); break (lines 136-139). The
\* call is outside every try, so its ValueError ends the thread.
AckStop(w) ==
    /\ pc[w] = "ack_stop"
    /\ unfinished_tasks' = TaskDone
    /\ late_error' = (late_error \/ (TaskDoneRaises /\ interrupted))
    /\ Exit(w, IF TaskDoneRaises THEN "exception" ELSE "sentinel")
    /\ UNCHANGED <<timed, sleeps, image_hash, key_vars, api_handler, dropped, api_requests, files, request_queue, before_stop, no_of_skipped,
                   completed_counter, dpc, sentinels_put, interrupted, run,
                   consecutive_errors, ack_calls, history_vars>>

\* Mutant of CheckExists: the existence test is dropped, the API is always
\* called.
CheckExistsAlwaysCalls(w) ==
    /\ pc[w] = "check"
    /\ pc' = [pc EXCEPT ![w] = "call"]
    /\ UNCHANGED <<timed, sleeps, image_hash, key_vars, api_handler, dropped, api_requests, files, request_queue, before_stop,
                   unfinished_tasks, no_of_skipped, completed_counter, dpc,
                   sentinels_put, interrupted, run, request, consecutive_errors,
                   error_msg, flow, exit_reason, ack_vars, history_vars>>

\* `if os.path.exists(generated_response_file)` (lines 142-146).
CheckExists(w) ==
    /\ pc[w] = "check"
    /\ pc' = [pc EXCEPT ![w] =
                 IF GeneratedResponseFile(request[w]) \in files
                 THEN "skip_ack" ELSE "call"]
    /\ UNCHANGED <<timed, sleeps, image_hash, key_vars, api_handler, dropped, api_requests, files, request_queue, before_stop, unfinished_tasks,
                   no_of_skipped, completed_counter, dpc, sentinels_put,
                   interrupted, run, request, consecutive_errors, error_msg,
                   flow, exit_reason, ack_vars, history_vars>>

\* Mutant of ExceptClause: a retry puts the request back twice.
ExceptClausePutsTwice(w, kind, u) ==
    /\ failed' = TRUE
    /\ error_msg' = [error_msg EXCEPT ![w] = kind]
    /\ api_handler' = IF kind = "quota"
                      THEN [api_handler EXCEPT ![w] = CreateApiHandler]
                      ELSE api_handler
    /\ consecutive_errors' =
           IF kind = "quota" THEN consecutive_errors
           ELSE [consecutive_errors EXCEPT ![w] = @ + 1]
    /\ IF kind = "other" /\ consecutive_errors[w] + 1 >= max_consecutive_errors
       THEN /\ pc' = [pc EXCEPT ![w] = "drop_ack"]
            /\ unfinished_tasks' = u
            /\ dropped' = dropped \cup {request[w]}
            /\ UNCHANGED <<request_queue, before_stop, sleeps>>
       ELSE /\ request_queue' = Append(Append(request_queue, request[w]), request[w])
            /\ before_stop' = Append(Append(before_stop, sentinels_put = 0), sentinels_put = 0)
            /\ unfinished_tasks' = u + 2
            /\ pc' = [pc EXCEPT ![w] = "finally"]
            /\ \E k \in RandomDraws : Sleep(w, "backoff", BackoffDelay(k))
            /\ UNCHANGED dropped

\* Mutant of ExceptClause: a quota error counts as a consecutive error too.
ExceptClauseCountsQuota(w, kind, u) ==
    /\ failed' = TRUE
    /\ error_msg' = [error_msg EXCEPT ![w] = kind]
    /\ api_handler' = IF kind = "quota"
                      THEN [api_handler EXCEPT ![w] = CreateApiHandler]
                      ELSE api_handler
    /\ consecutive_errors' = [consecutive_errors EXCEPT ![w] = @ + 1]
    /\ IF consecutive_errors[w] + 1 >= max_consecutive_errors
       THEN /\ pc' = [pc EXCEPT ![w] = "drop_ack"]
            /\ unfinished_tasks' = u
            /\ dropped' = dropped \cup {request[w]}
            /\ UNCHANGED <<request_queue, before_stop, sleeps>>
       ELSE /\ request_queue' = Append(request_queue, request[w])
            /\ before_stop' = Append(before_stop, sentinels_put = 0)
            /\ unfinished_tasks' = u + 1
            /\ pc' = [pc EXCEPT ![w] = "finally"]
            /\ \E k \in RandomDraws : Sleep(w, "backoff", BackoffDelay(k))
            /\ UNCHANGED dropped

\* Mutant of ExceptClause: the request is put back before the ceiling test,
\* so the dropped request stays in the queue.
ExceptClausePutsFirst(w, kind, u) ==
    /\ failed' = TRUE
    /\ error_msg' = [error_msg EXCEPT ![w] = kind]
    /\ api_handler' = IF kind = "quota"
                      THEN [api_handler EXCEPT ![w] = CreateApiHandler]
                      ELSE api_handler
    /\ consecutive_errors' =
           IF kind = "quota" THEN consecutive_errors
           ELSE [consecutive_errors EXCEPT ![w] = @ + 1]
    /\ request_queue' = Append(request_queue, request[w])
    /\ before_stop' = Append(before_stop, sentinels_put = 0)
    /\ unfinished_tasks' = u + 1
    /\ pc' = [pc EXCEPT ![w] =
                 IF kind = "other" /\ consecutive_errors[w] + 1 >= max_consecutive_errors
                 THEN "drop_ack" ELSE "finally"]
    /\ dropped' =
           IF kind = "other" /\ consecutive_errors[w] + 1 >= max_consecutive_errors
           THEN dropped \cup {request[w]} ELSE dropped
    /\ \E k \in RandomDraws : Sleep(w, "backoff", BackoffDelay(k))

\* The except clause (lines 166-198), entered with unfinished_tasks = u and
\* an error whose message contains a quota phrase (kind = "quota") or not
\* (kind = "other"). Quota: a fresh api_handler, request_queue.put(request).
\* Other: consecutive_errors += 1, then the ceiling branch (line 188) or
\* request_queue.put(request). After a put: time.sleep(4 + 4 * random.random()).
ExceptClause(w, kind, u) ==
    /\ failed' = TRUE
    /\ error_msg' = [error_msg EXCEPT ![w] = kind]
    /\ api_handler' = IF kind = "quota"
                      THEN [api_handler EXCEPT ![w] = CreateApiHandler]
                      ELSE api_handler
    /\ consecutive_errors' =
           IF kind = "quota" THEN consecutive_errors
           ELSE [consecutive_errors EXCEPT ![w] = @ + 1]
    /\ IF kind = "other" /\ consecutive_errors[w] + 1 >= max_consecutive_errors
       THEN /\ pc' = [pc EXCEPT ![w] = "drop_ack"]
            /\ unfinished_tasks' = u
            /\ dropped' = dropped \cup {request[w]}
            /\ UNCHANGED <<request_queue, before_stop, sleeps>>
       ELSE /\ request_queue' = Append(request_queue, request[w])
            /\ before_stop' = Append(before_stop, sentinels_put = 0)
            /\ unfinished_tasks' = u + 1
            /\ pc' = [pc EXCEPT ![w] = "finally"]
            /\ \E k \in RandomDraws : Sleep(w, "backoff", BackoffDelay(k))
            /\ UNCHANGED dropped

\* The skip branch: request_queue.task_done(); continue (lines 150-151).
\* The call is inside the try: its ValueError is caught by `except Exception`;
\* `continue` leaves the try through the finally clause.
SkipAck(w) ==
    /\ pc[w] = "skip_ack"
    /\ NoteAck(w)
    /\ IF TaskDoneRaises
       THEN /\ ExceptClause(w, "other", unfinished_tasks)
            /\ UNCHANGED flow
       ELSE /\ unfinished_tasks' = TaskDone
            /\ pc' = [pc EXCEPT ![w] = "finally"]
            /\ flow' = [flow EXCEPT ![w] = "continue"]
            /\ UNCHANGED <<request_queue, before_stop, consecutive_errors, error_msg, failed,
                           api_handler, dropped, sleeps>>
    /\ UNCHANGED <<timed, image_hash, key_vars, api_requests, files, no_of_skipped, completed_counter, dpc,
                   sentinels_put, interrupted, run, request, exit_reason,
                   seeded, prefiles, processed, processed_before>>

\* call_gemini_api raises and the except clause handles it.
CallRaises(w, kind) ==
    /\ pc[w] = "call"
    /\ ExceptClause(w, kind, unfinished_tasks)
    /\ UNCHANGED <<timed, image_hash, key_vars, api_requests, files, no_of_skipped, completed_counter, dpc,
                   sentinels_put, interrupted, run, request, flow, exit_reason,
                   ack_vars, seeded, prefiles, processed, processed_before>>

\* str(e) contains one of possible_errors.
CallQuotaError(w) == CallRaises(w, "quota")

\* Any other exception of Image.open or of the API client.
CallOtherError(w) == CallRaises(w, "other")

\* Mutant of WriteResult: the result is written under another name than the
\* one the existence tests look for.
WriteResultElsewhere(w) ==
    /\ pc[w] = "call"
    /\ processed' = processed \cup {request[w]}
    /\ pc' = [pc EXCEPT ![w] = "increment"]
    /\ UNCHANGED <<timed, sleeps, image_hash, key_vars, api_handler, dropped, api_requests, files, request_queue, before_stop, unfinished_tasks,
                   no_of_skipped, completed_counter, dpc, sentinels_put,
                   interrupted, run, request, consecutive_errors, error_msg,
                   flow, exit_reason, ack_calls, late_error, seeded, prefiles,
                   failed, processed_before>>

\* call_gemini_api returns a result (line 154); open(generated_response_file,
\* "w") and json.dump complete (lines 157-158).
WriteResult(w) ==
    /\ pc[w] = "call"
    /\ files' = files \cup {GeneratedResponseFile(request[w])}
    /\ processed' = processed \cup {request[w]}
    /\ pc' = [pc EXCEPT ![w] = "increment"]
    /\ UNCHANGED <<timed, sleeps, image_hash, key_vars, api_handler, dropped, api_requests, request_queue, before_stop, unfinished_tasks,
                   no_of_skipped, completed_counter, dpc, sentinels_put,
                   interrupted, run, request, consecutive_errors, error_msg,
                   flow, exit_reason, ack_vars, seeded, prefiles, failed,
                   processed_before>>

\* call_gemini_api returns a result, open() creates the file and the write
\* of json.dump raises OSError; the except clause handles it. (When open()
\* itself raises, no file is created: the effect of CallOtherError.)
WriteRaises(w) ==
    /\ pc[w] = "call"
    /\ files' = files \cup {GeneratedResponseFile(request[w])}
    /\ ExceptClause(w, "other", unfinished_tasks)
    /\ UNCHANGED <<timed, image_hash, key_vars, api_requests, no_of_skipped, completed_counter, dpc,
                   sentinels_put, interrupted, run, request, flow, exit_reason,
                   ack_vars, seeded, prefiles, processed, processed_before>>

\* Mutant of Increment: `self.value += 1` without the lock, so an increment
\* that overlaps another worker's is lost.
IncrementUnlocked(w) ==
    /\ pc[w] = "increment"
    /\ completed_counter' =
           IF \E v \in Workers \ {w} : pc[v] = "increment"
           THEN completed_counter ELSE completed_counter + 1
    /\ consecutive_errors' = [consecutive_errors EXCEPT ![w] = 0]
    /\ pc' = [pc EXCEPT ![w] = "finally"]
    /\ UNCHANGED <<timed, sleeps, image_hash, key_vars, api_handler, dropped, api_requests, files, request_queue, before_stop,
                   unfinished_tasks, no_of_skipped, dpc, sentinels_put,
                   interrupted, run, request, error_msg, flow, exit_reason,
                   ack_vars, history_vars>>

\* Mutant of Increment: a success does not reset consecutive_errors.
IncrementKeepsErrors(w) ==
    /\ pc[w] = "increment"
    /\ completed_counter' = completed_counter + 1
    /\ pc' = [pc EXCEPT ![w] = "finally"]
    /\ UNCHANGED <<timed, sleeps, image_hash, key_vars, api_handler, dropped, api_requests, files, request_queue, before_stop,
                   unfinished_tasks, no_of_skipped, dpc, sentinels_put,
                   interrupted, run, request, consecutive_errors, error_msg,
                   flow, exit_reason, ack_vars, history_vars>>

\* completed_counter.increment(); consecutive_errors = 0 (lines 160-164);
\* the try block ends normally.
Increment(w) ==
    /\ pc[w] = "increment"
    /\ completed_counter' = completed_counter + 1
    /\ consecutive_errors' = [consecutive_errors EXCEPT ![w] = 0]
    /\ pc' = [pc EXCEPT ![w] = "finally"]
    /\ UNCHANGED <<timed, sleeps, image_hash, key_vars, api_handler, dropped, api_requests, files, request_queue, before_stop, unfinished_tasks,
                   no_of_skipped, dpc, sentinels_put, interrupted, run,
                   request, error_msg, flow, exit_reason, ack_vars,
                   history_vars>>

\* Mutant of DropAck: the ceiling branch puts the request back before it
\* acknowledges.
DropAckRequeues(w) ==
    /\ pc[w] = "drop_ack"
    /\ request_queue' = Append(request_queue, request[w])
    /\ before_stop' = Append(before_stop, sentinels_put = 0)
    /\ unfinished_tasks' = unfinished_tasks
    /\ NoteAck(w)
    /\ flow' = [flow EXCEPT ![w] = "break"]
    /\ pc' = [pc EXCEPT ![w] = "finally"]
    /\ UNCHANGED <<timed, sleeps, image_hash, key_vars, api_handler, dropped, api_requests, files, no_of_skipped,
                   completed_counter, dpc, sentinels_put, interrupted, run,
                   request, consecutive_errors, error_msg, exit_reason,
                   history_vars>>

\* The ceiling branch: request_queue.task_done(); break (lines 192-193).
\* `break` leaves the try through the finally clause; a ValueError raised
\* here, inside the except clause, propagates through the finally clause.
DropAck(w) ==
    /\ pc[w] = "drop_ack"
    /\ unfinished_tasks' = TaskDone
    /\ NoteAck(w)
    /\ flow' = [flow EXCEPT ![w] = IF TaskDoneRaises THEN "raise" ELSE "break"]
    /\ pc' = [pc EXCEPT ![w] = "finally"]
    /\ UNCHANGED <<timed, sleeps, image_hash, key_vars, api_handler, dropped, api_requests, files, request_queue, before_stop, no_of_skipped,
                   completed_counter, dpc, sentinels_put, interrupted, run,
                   request, consecutive_errors, error_msg, exit_reason,
                   history_vars>>

\* finally: request_queue.task_done(), then, unless that raised,
\* time.sleep(0.05 + 0.05 * random.random()) (lines 201-203), then the
\* pending continue, break or exception takes effect. A ValueError raised by
\* task_done replaces whatever was leaving the try and ends the thread.
Finally(w) ==
    /\ pc[w] = "finally"
    /\ unfinished_tasks' = TaskDone
    /\ late_error' = (late_error \/ (TaskDoneRaises /\ interrupted))
    /\ ack_calls' = [ack_calls EXCEPT ![w] = 0]
    /\ IF TaskDoneRaises THEN UNCHANGED sleeps
       ELSE \E k \in RandomDraws : Sleep(w, "courtesy", CourtesyDelay(k))
    /\ CASE TaskDoneRaises \/ flow[w] = "raise" -> Exit(w, "exception")
         [] ~TaskDoneRaises /\ flow[w] = "break" -> Exit(w, "ceiling")
         [] OTHER -> /\ pc' = [pc EXCEPT ![w] = "fetch"]
                     /\ request' = [request EXCEPT ![w] = NoRequest]
                     /\ error_msg' = [error_msg EXCEPT ![w] = "none"]
                     /\ flow' = [flow EXCEPT ![w] = "normal"]
                     /\ UNCHANGED exit_reason
    /\ UNCHANGED <<timed, image_hash, key_vars, api_handler, dropped, api_requests, files, request_queue, before_stop, no_of_skipped,
                   completed_counter, dpc, sentinels_put, interrupted, run,
                   consecutive_errors, history_vars>>

\* ------------------------------------------------------------ specification
Worker(w) ==
    \/ Get(w)
    \/ GetTimeout(w)
    \/ AckStop(w)
    \/ CheckExists(w)
    \/ SkipAck(w)
    \/ CallQuotaError(w)
    \/ CallOtherError(w)
    \/ WriteResult(w)
    \/ WriteRaises(w)
    \/ Increment(w)
    \/ DropAck(w)
    \/ Finally(w)

Next ==
    \/ Seed
    \/ JoinReturns
    \/ Interrupt
    \/ PutSentinel
    \/ \E w \in Workers : Worker(w)

\* One run of the script.
Spec == Init /\ [][Next]_vars

NextRerun ==
    \/ Next
    \/ Rerun

\* Up to MaxRuns runs of the script, one after the other.
SpecRerun == Init /\ [][NextRerun]_vars

\* A run over NumPoisonJobs requests none of which can be processed (an
\* unreadable image: every attempt raises a non-quota error), at the moment
\* the workers are started: nothing was skipped, the shuffle kept the order.
InitPoison ==
    /\ timed = FALSE
    /\ sleeps = [w \in Workers |-> <<>>]
    /\ image_hash = [j \in 1..NumPoisonJobs |-> Hashes[j]]
    /\ api_requests = [i \in 1..NumPoisonJobs |-> i]
    /\ files = {}
    /\ request_queue = SeedQueue(api_requests, files)
    /\ before_stop = [i \in 1..Len(SeedQueue(api_requests, files)) |-> TRUE]
    /\ unfinished_tasks = Len(request_queue)
    /\ no_of_skipped = SeedSkipped(api_requests, files)
    /\ completed_counter = 0
    /\ dpc = "join"
    /\ sentinels_put = 0
    /\ interrupted = FALSE
    /\ run = 1
    /\ pc = [w \in Workers |-> "fetch"]
    /\ request = [w \in Workers |-> NoRequest]
    /\ consecutive_errors = [w \in Workers |-> 0]
    /\ error_msg = [w \in Workers |-> "none"]
    /\ flow = [w \in Workers |-> "normal"]
    /\ exit_reason = [w \in Workers |-> "none"]
    /\ ack_calls = [w \in Workers |-> 0]
    /\ late_error = FALSE
    /\ seeded = Range(request_queue)
    /\ prefiles = {}
    /\ failed = FALSE
    /\ processed = {}
    /\ processed_before = {}
    /\ KeyManagerInit(ApiKeys(NumKeys))
    /\ api_handler = [w \in Workers |-> CreateApiHandler]
    /\ dropped = {}

NextPoison ==
    \E w \in Workers :
        \/ Get(w)
        \/ CheckExists(w)
        \/ CallOtherError(w)
        \/ DropAck(w)
        \/ Finally(w)

SpecPoison == InitPoison /\ [][NextPoison]_vars

\* A second process of the script runs over the same request file and the
\* same output_dir at the same time: one of its workers completes lines
\* 154-158 for request j, whose response file does not exist yet.
OtherRunPersists(j) ==
    /\ GeneratedResponseFile(j) \notin files
    /\ files' = files \cup {GeneratedResponseFile(j)}
    /\ UNCHANGED <<timed, sleeps, image_hash, key_vars, api_handler, dropped, api_requests, request_queue, before_stop,
                   unfinished_tasks, no_of_skipped, completed_counter, dpc,
                   sentinels_put, interrupted, run, worker_vars, ack_vars,
                   history_vars>>

\* One run of the script, uninterrupted and with every call_gemini_api and
\* every json.dump succeeding, next to a concurrent run of the same script.
NextConcurrent ==
    \/ Seed
    \/ JoinReturns
    \/ PutSentinel
    \/ \E j \in 1..NumJobs : OtherRunPersists(j)
    \/ \E w \in Workers :
        \/ Get(w)
        \/ GetTimeout(w)
        \/ AckStop(w)
        \/ CheckExists(w)
        \/ SkipAck(w)
        \/ WriteResult(w)
        \/ Increment(w)
        \/ DropAck(w)
        \/ Finally(w)

SpecConcurrent == Init /\ [][NextConcurrent]_vars


\* Mutant of LockAcquire: get_next_api_key without `with self.lock`.
LockAcquireNoLock(t) ==
    /\ kpc[t] = "idle"
    /\ Len(returned) < MaxCalls
    /\ lock' = t
    /\ kpc' = [kpc EXCEPT ![t] = "read"]
    /\ UNCHANGED <<timed, sleeps, image_hash, api_keys, api_key, key_index, model_name, key, returned,
                   api_handler, dropped, api_requests, files, request_queue, before_stop,
                   unfinished_tasks, no_of_skipped, completed_counter, dpc,
                   sentinels_put, interrupted, run, worker_vars, ack_vars,
                   history_vars>>

\* ------------------------------------------------------- get_next_api_key
\* `with self.lock:` of get_next_api_key (line 53): the thread blocks until
\* the lock is free, then holds it.
LockAcquire(t) ==
    /\ kpc[t] = "idle"
    /\ Len(returned) < MaxCalls
    /\ lock = Unlocked
    /\ lock' = t
    /\ kpc' = [kpc EXCEPT ![t] = "read"]
    /\ UNCHANGED <<timed, sleeps, image_hash, api_keys, api_key, key_index, model_name, key, returned,
                   api_handler, dropped, api_requests, files, request_queue, before_stop,
                   unfinished_tasks, no_of_skipped, completed_counter, dpc,
                   sentinels_put, interrupted, run, worker_vars, ack_vars,
                   history_vars>>

\* key = self.api_keys[self.key_index] (line 54).
ReadKey(t) ==
    /\ kpc[t] = "read"
    /\ key' = [key EXCEPT ![t] = api_keys[key_index + 1]]
    /\ kpc' = [kpc EXCEPT ![t] = "advance"]
    /\ UNCHANGED <<timed, sleeps, image_hash, api_keys, api_key, key_index, model_name, lock, returned,
                   api_handler, dropped, api_requests, files, request_queue, before_stop,
                   unfinished_tasks, no_of_skipped, completed_counter, dpc,
                   sentinels_put, interrupted, run, worker_vars, ack_vars,
                   history_vars>>

\* self.key_index = (self.key_index + 1) % len(self.api_keys); return key
\* (lines 55-56): the lock is released on the way out.
AdvanceIndex(t) ==
    /\ kpc[t] = "advance"
    /\ key_index' = (key_index + 1) % Len(api_keys)
    /\ returned' = Append(returned, key[t])
    /\ lock' = Unlocked
    /\ key' = [key EXCEPT ![t] = "none"]
    /\ kpc' = [kpc EXCEPT ![t] = "idle"]
    /\ UNCHANGED <<timed, sleeps, image_hash, api_keys, api_key, model_name, api_handler, dropped,
                   api_requests, files, request_queue, before_stop, unfinished_tasks,
                   no_of_skipped, completed_counter, dpc, sentinels_put,
                   interrupted, run, worker_vars, ack_vars, history_vars>>

\* Mutant of CreateHandlerCall: create_api_handler takes the next key of the
\* rotation and makes it the active one.
CreateHandlerCallRotates(t) ==
    /\ kpc[t] = "idle"
    /\ lock = Unlocked
    /\ api_key' = api_keys[key_index + 1]
    /\ key_index' = (key_index + 1) % Len(api_keys)
    /\ api_handler' = [api_handler EXCEPT ![t] =
                          [api_key |-> api_keys[key_index + 1], model_name |-> model_name]]
    /\ UNCHANGED <<timed, sleeps, image_hash, api_keys, model_name, lock, kpc, key,
                   returned, dropped, api_requests, files, request_queue, before_stop,
                   unfinished_tasks, no_of_skipped, completed_counter, dpc,
                   sentinels_put, interrupted, run, pc, request,
                   consecutive_errors, error_msg, flow, exit_reason, ack_vars,
                   history_vars>>

\* A thread calls create_api_handler (lines 58-60): self.api_key is read
\* without the lock, the model_name property takes and releases the lock.
CreateHandlerCall(t) ==
    /\ kpc[t] = "idle"
    /\ lock = Unlocked
    /\ api_handler' = [api_handler EXCEPT ![t] = CreateApiHandler]
    /\ UNCHANGED <<timed, sleeps, image_hash, api_keys, api_key, key_index, model_name, lock, kpc, key,
                   returned, dropped, api_requests, files, request_queue, before_stop,
                   unfinished_tasks, no_of_skipped, completed_counter, dpc,
                   sentinels_put, interrupted, run, pc, request,
                   consecutive_errors, error_msg, flow, exit_reason, ack_vars,
                   history_vars>>

\* An APIKeyManager over 1..NumKeys keys, before any worker is started.
InitKeys ==
    /\ InitCommon
    /\ timed = FALSE
    /\ image_hash = <<>>
    /\ api_requests = <<>>
    /\ files = {}
    /\ \E n \in 1..NumKeys : KeyManagerInit(ApiKeys(n))

NextKeys ==
    \E t \in Workers :
        \/ LockAcquire(t)
        \/ ReadKey(t)
        \/ AdvanceIndex(t)
        \/ CreateHandlerCall(t)

\* Threads that call get_next_api_key and create_api_handler of one
\* APIKeyManager concurrently, MaxCalls get_next_api_key calls in all.
SpecKeys == InitKeys /\ [][NextKeys]_vars


\* ------------------------------------------------- request lists in general
\* metadata["image_file_name"] of the metadata files: one name per request.
FileNames == <<"f1", "f2", "f3", "f4", "f5", "f6", "f7", "f8">>

\* request["image_id"]: image_file_name.replace(".jpg", "") (create_request).
ImageId(j) == ReplaceJpg(<<FileNames[j], ".jpg">>)

\* A request file whose requests have distinct image_ids and any image_hash
\* values, equal ones included; an empty output_dir.
InitCollide ==
    /\ InitCommon
    /\ timed = FALSE
    /\ KeyManagerInit(ApiKeys(NumKeys))
    /\ image_hash \in [1..NumJobs -> {Hashes[k] : k \in 1..NumJobs}]
    /\ api_requests = [i \in 1..NumJobs |-> i]
    /\ files = {}

\* One run of the script, uninterrupted and with every call_gemini_api and
\* every json.dump succeeding.
NextCollide ==
    \/ Seed
    \/ JoinReturns
    \/ PutSentinel
    \/ \E w \in Workers :
        \/ Get(w)
        \/ GetTimeout(w)
        \/ AckStop(w)
        \/ CheckExists(w)
        \/ SkipAck(w)
        \/ WriteResult(w)
        \/ Increment(w)
        \/ Finally(w)

SpecCollide == InitCollide /\ [][NextCollide]_vars


\* ------------------------------------------------------- the sleeps observed
\* A run over an empty output_dir whose time.sleep calls are observed.
InitDelays ==
    /\ InitCommon
    /\ timed = TRUE
    /\ KeyManagerInit(ApiKeys(NumKeys))
    /\ image_hash = [j \in 1..NumJobs |-> Hashes[j]]
    /\ api_requests = [i \in 1..NumJobs |-> i]
    /\ files = {}

\* The schedules of one run in which worker 1 is the only worker that gets
\* to run.
NextDelays ==
    \/ Seed
    \/ JoinReturns
    \/ PutSentinel
    \/ Worker(1)

SpecDelays == InitDelays /\ [][NextDelays]_vars


\* ------------------------------------------------------------------ claims
Jobs == Range(api_requests)

\* Worker w ends the handling of the item it dequeued in this step.
EndsItem(w) ==
    /\ pc[w] \in {"ack_stop", "finally"}
    /\ pc'[w] \in {"fetch", "exited"}

\* C1: every item a worker dequeues is acknowledged exactly once: when the
\* worker ends the handling of the item, the task_done() call of that step
\* is the only one made for the item, and it decrements unfinished_tasks.
C1_AckExactlyOnce ==
    [][\A w \in Workers :
          EndsItem(w) => /\ ack_calls[w] = 0
                         /\ unfinished_tasks' = unfinished_tasks - 1]_vars

\* Worker w holds a dequeued request it has neither persisted, skipped,
\* dropped nor put back.
HoldsUnfinished(w) == pc[w] \in {"check", "call"}

\* C2: whenever unfinished_tasks is zero, no request waits in the queue and
\* no worker holds a request it has not finished.
C2_PendingNeverPrematurelyZero ==
    (dpc # "seed" /\ unfinished_tasks = 0) =>
        /\ \A i \in 1..Len(request_queue) : request_queue[i] = None
        /\ \A w \in Workers : ~HoldsUnfinished(w)

\* C3: while the main thread waits in request_queue.join(), the workers
\* have not all exited (by timeout, stop signal or ceiling) with
\* unfinished_tasks above zero.
C3_PendingNeverStuck ==
    (/\ dpc = "join"
     /\ \A w \in Workers :
            pc[w] = "exited" /\ exit_reason[w] \in {"timeout", "sentinel", "ceiling"})
    => unfinished_tasks = 0

\* Worker w is inside call_gemini_api for request j.
Invokes(w, j) == pc[w] = "call" /\ request[w] = j

\* C4: a request whose response file existed when the run seeded is not
\* put by the seeding loop, and no worker calls the API for it.
C4_SkipProperty ==
    dpc # "seed" =>
        \A j \in Jobs :
            GeneratedResponseFile(j) \in prefiles =>
                /\ j \notin seeded
                /\ \A w \in Workers : ~Invokes(w, j)

\* A run that skipped one request at seeding and called the API for another.
C4_Witness ==
    /\ dpc = "join"
    /\ \E j \in Jobs : GeneratedResponseFile(j) \in prefiles
    /\ \E j \in Jobs, w \in Workers : Invokes(w, j)

\* C5: the response file of a request a worker has persisted exists from
\* then on; a later run does not put such a request in the queue and no
\* worker of the later run calls the API for it.
C5_Durability ==
    /\ \A j \in processed : GeneratedResponseFile(j) \in files
    /\ dpc # "seed" =>
           \A j \in processed_before :
               /\ j \notin seeded
               /\ \A w \in Workers : ~Invokes(w, j)

\* A second run, started after the first run persisted one request only,
\* calls the API for the other request.
C5_Witness ==
    /\ run = 2
    /\ processed_before # {}
    /\ \E j \in Jobs \ processed_before, w \in Workers : Invokes(w, j)

\* The try of worker w raises a quota error in this step.
QuotaErrorStep(w) ==
    /\ pc[w] = "call"
    /\ pc'[w] # "call"
    /\ error_msg'[w] = "quota"

\* C6: every attempt that fails with a quota error puts the request back at
\* the tail of the queue, whatever the number of earlier retries, leaves
\* every worker's consecutive_errors unchanged and does not take the worker
\* out of its loop (the try is left normally, with no break pending).
C6_QuotaRetryLossless ==
    [][\A w \in Workers :
          QuotaErrorStep(w) =>
              /\ request_queue' = Append(request_queue, request[w])
              /\ unfinished_tasks' = unfinished_tasks + 1
              /\ consecutive_errors' = consecutive_errors
              /\ request'[w] = request[w]
              /\ pc'[w] = "finally"
              /\ flow'[w] = "normal"]_vars

\* A worker that already counts a non-quota failure has just handled a quota
\* error: its request is back in the queue.
C6_Witness ==
    \E w \in Workers :
        /\ pc[w] = "finally"
        /\ error_msg[w] = "quota"
        /\ consecutive_errors[w] > 0
        /\ request_queue # <<>>
        /\ request_queue[Len(request_queue)] = request[w]

\* The except clause of worker w counts the failure that reaches the ceiling.
ReachesCeiling(w) ==
    /\ consecutive_errors'[w] # consecutive_errors[w]
    /\ consecutive_errors'[w] >= max_consecutive_errors

\* C7: when the consecutive non-quota failures of a worker reach the
\* ceiling, the worker does not put the request back, calls task_done() for
\* it and leaves its loop without fetching again.
C7_FatalDrop ==
    [][\A w \in Workers :
          /\ ReachesCeiling(w) =>
                 /\ pc'[w] = "drop_ack"
                 /\ request_queue' = request_queue
                 /\ unfinished_tasks' = unfinished_tasks
          /\ (pc[w] = "drop_ack" /\ pc'[w] # "drop_ack") =>
                 /\ ack_calls'[w] = ack_calls[w] + 1
                 /\ unfinished_tasks' = TaskDone
                 /\ request_queue' = request_queue
                 /\ pc'[w] = "finally"
                 /\ flow'[w] \in {"break", "raise"}
          /\ (pc[w] = "finally" /\ flow[w] \in {"break", "raise"}
                /\ pc'[w] # "finally") =>
                 /\ pc'[w] = "exited"
                 /\ request_queue' = request_queue]_vars

\* A worker has left its loop at the ceiling while another request waits.
C7_Witness ==
    \E w \in Workers :
        /\ pc[w] = "exited"
        /\ exit_reason[w] = "ceiling"
        /\ consecutive_errors[w] = max_consecutive_errors
        /\ request_queue # <<>>

\* join() has returned, no interrupt arrived and no attempt of the run failed.
DrainedCleanly == dpc \in {"stop", "done"} /\ ~interrupted /\ ~failed

C9_SentinelShutdown ==
    /\ sentinels_put <= num_workers
    /\ dpc = "done" => sentinels_put = num_workers
    /\ interrupted => ~late_error

\* C10: a worker leaves its loop only by the fetch timeout, a stop signal
\* or the ceiling; no exception ends the thread.
C10_NoExceptionEscapes ==
    \A w \in Workers :
        pc[w] = "exited" => exit_reason[w] \in {"timeout", "sentinel", "ceiling"}


\* C11: when a second run shares output_dir and every attempt succeeds, the
\* run ends normally: no task_done() raises, join() returns only when no
\* request waits in the queue or is held unfinished by a worker, and once
\* the run is over every request has its response file.
C11_ConcurrentRuns ==
    /\ \A w \in Workers : exit_reason[w] # "exception"
    /\ dpc \in {"stop", "done"} =>
           /\ \A i \in 1..Len(request_queue) : request_queue[i] = None
           /\ \A w \in Workers : ~HoldsUnfinished(w)
    /\ (dpc = "done" /\ \A w \in Workers : pc[w] = "exited") =>
           \A j \in Jobs : GeneratedResponseFile(j) \in files


\* Worker w leaves call_gemini_api in this step having opened the response
\* file for writing.
OpensResponseFile(w) ==
    /\ pc[w] = "call"
    /\ pc'[w] # "call"
    /\ pc'[w] = "increment" \/ files' # files

CeilingExitStep(w) ==
    \/ ReachesCeiling(w)
    \/ pc[w] = "drop_ack" /\ pc'[w] # "drop_ack"
    \/ pc[w] = "finally" /\ flow[w] \in {"break", "raise"} /\ pc'[w] # "finally"

\* C13: the exit of a worker at the ceiling leaves the main thread, the
\* queue's content and every other worker's position, request,
\* consecutive_errors and api_handler unchanged, and lowers unfinished_tasks
\* by one in all: by the task_done() of the ceiling branch and by nothing
\* else.
C13_CeilingExitFrame ==
    [][\A w \in Workers :
          CeilingExitStep(w) =>
              /\ \A v \in Workers \ {w} :
                     /\ pc'[v] = pc[v]
                     /\ request'[v] = request[v]
                     /\ consecutive_errors'[v] = consecutive_errors[v]
                     /\ api_handler'[v] = api_handler[v]
              /\ request_queue' = request_queue
              /\ dpc' = dpc
              /\ unfinished_tasks' =
                     unfinished_tasks - (IF pc[w] = "drop_ack" THEN 1 ELSE 0)]_vars


\* Request j is where a worker can still get at it: in the queue, or in the
\* hands of a worker that has not given it up.
Available(j) ==
    \/ j \in Range(request_queue)
    \/ \E w \in Workers : request[w] = j /\ pc[w] \in {"check", "skip_ack", "call"}

\* C14: a request dropped at the ceiling is not lost to the run: it can
\* still be dequeued and attempted by another worker.
C14_JobSurvivesDrop ==
    \A j \in dropped :
        \/ Available(j)
        \/ \E w \in Workers : request[w] = j /\ pc[w] \in {"drop_ack", "finally"}

\* C14 as the code has it: a request dropped at the ceiling is gone for the
\* rest of the run. It is never in the queue again, no worker holds it to
\* test, call or skip it (a worker whose `request` still names it is ending
\* the iteration in which it dropped it or put it back), and it is not
\* persisted in this run.
C14_DroppedJobIsLost ==
    \A j \in dropped :
        /\ ~Available(j)
        /\ j \notin processed
        /\ \A w \in Workers : request[w] = j => pc[w] \in {"drop_ack", "finally"}

\* A worker has dropped a request and left at the ceiling while another
\* worker, whose consecutive_errors is below the ceiling, attempts another
\* request.
C14_Witness ==
    /\ dropped # {}
    /\ \E w \in Workers : pc[w] = "exited" /\ exit_reason[w] = "ceiling"
    /\ \E v \in Workers :
           /\ pc[v] = "call"
           /\ consecutive_errors[v] < max_consecutive_errors
           /\ request[v] \notin dropped


\* C15: key_manager.api_key changes in the steps in which a worker handles a
\* quota error, and in no other: the worker's fresh api_handler is made
\* from the changed key.
C15_ActiveKeyReassignedOnQuota ==
    [][/\ \A w \in Workers :
             QuotaErrorStep(w) =>
                 /\ api_key' # api_key
                 /\ api_handler'[w].api_key = api_key'
       /\ api_key' # api_key => \E w \in Workers : QuotaErrorStep(w)]_vars

\* Thread t returns from get_next_api_key in this step.
ReturnsKey(t) == kpc[t] = "advance" /\ kpc'[t] = "idle"

\* C16: a handler that create_api_handler returns carries the manager's
\* api_key and model_name; api_keys, api_key and model_name never change and
\* key_index changes only when a get_next_api_key call returns, so no
\* create_api_handler call, by any thread at any point, moves them.
C16_CreateHandlerFrame ==
    [][/\ api_keys' = api_keys
       /\ api_key' = api_key
       /\ model_name' = model_name
       /\ key_index' # key_index => \E t \in Workers : ReturnsKey(t)
       /\ \A t \in Workers :
             api_handler'[t] # api_handler[t] =>
                 api_handler'[t] = [api_key |-> api_key, model_name |-> model_name]]_vars

\* A thread holds a handler made from api_key while key_index points at
\* another key and another thread is inside get_next_api_key.
C16_Witness ==
    \E t, u \in Workers :
        /\ api_handler[t] = [api_key |-> api_key, model_name |-> model_name]
        /\ api_keys[key_index + 1] # api_key
        /\ kpc[u] = "advance"

\* C17: the i-th get_next_api_key call to return (from 0) returns
\* api_keys[i mod len(api_keys)], under every interleaving of the calling
\* threads; key_index stays in 0..len(api_keys)-1 and is the number of
\* returned calls modulo len(api_keys).
C17_RoundRobin ==
    /\ key_index \in 0..(Len(api_keys) - 1)
    /\ key_index = Len(returned) % Len(api_keys)
    /\ \A i \in 1..Len(returned) :
           returned[i] = api_keys[((i - 1) % Len(api_keys)) + 1]

\* More calls have returned than there are keys: the rotation has wrapped,
\* and one more call is under way.
C17_Witness ==
    /\ Len(api_keys) >= 2
    /\ Len(returned) > Len(api_keys)
    /\ returned[Len(api_keys) + 1] = api_keys[1]
    /\ \E t \in Workers : kpc[t] = "advance"


\* The requests whose result a worker of this run has persisted.
PersistedInRun == processed \ processed_before

\* C18: in every state completed_counter equals the number of results
\* persisted in this run.
C18_CounterEqualsPersisted ==
    completed_counter = Cardinality(PersistedInRun)

\* Worker w completes completed_counter.increment() in this step.
IncrementStep(w) == pc[w] = "increment" /\ pc'[w] # "increment"

\* C18 as the code has it: json.dump (line 158) and
\* completed_counter.increment() (line 160) are two steps, so the counter
\* lags the persisted results by the workers that are between the two, and
\* equals them when no worker is; it changes only by an increment step,
\* which adds exactly one, so it never decreases and no skip, failure, drop
\* or stop signal changes it.
C18_CounterLagsPersisted ==
    /\ [](completed_counter + Cardinality({w \in Workers : pc[w] = "increment"})
             = Cardinality(PersistedInRun))
    /\ [][completed_counter' # completed_counter =>
             /\ completed_counter' = completed_counter + 1
             /\ \E w \in Workers : IncrementStep(w)]_vars

\* A worker has persisted a result and not yet counted it, after an earlier
\* result was counted and an attempt of the run failed.
C18_Witness ==
    /\ completed_counter >= 1
    /\ failed
    /\ \E w \in Workers : pc[w] = "increment"


\* Number of stop signals in the queue q.
Sentinels(q) == Len(SelectSeq(q, LAMBDA x : x = None))

\* C19: a stop signal enters the queue only by a put of the main thread
\* after join() returned or was interrupted, num_workers of them in a run; no
\* step of a worker adds one. A worker that dequeues a stop signal calls
\* task_done() and leaves its loop in its next step, never reaching the API
\* call, and a worker that has left never fetches again.
C19_SentinelDiscipline ==
    /\ [](/\ sentinels_put <= num_workers
          /\ dpc = "done" => sentinels_put = num_workers
          /\ dpc \in {"seed", "join"} => sentinels_put = 0
          /\ \A w \in Workers :
                 pc[w] \in {"check", "skip_ack", "call", "increment", "drop_ack", "finally"}
                     => request[w] # None)
    /\ [][/\ Sentinels(request_queue') > Sentinels(request_queue) =>
                 /\ dpc = "stop"
                 /\ Sentinels(request_queue') = Sentinels(request_queue) + 1
                 /\ sentinels_put' = sentinels_put + 1
                 /\ pc' = pc
          /\ \A w \in Workers :
                 /\ (pc[w] = "ack_stop" /\ pc'[w] # "ack_stop") =>
                        /\ pc'[w] = "exited"
                        /\ unfinished_tasks' = TaskDone
                 /\ pc[w] = "exited" => pc'[w] = "exited"]_vars

\* After an interrupt all stop signals are put, one worker has left on a
\* stop signal and another holds one it has just dequeued.
C19_Witness ==
    /\ interrupted
    /\ sentinels_put = num_workers
    /\ \E w, v \in Workers :
           /\ pc[w] = "exited" /\ exit_reason[w] = "sentinel"
           /\ pc[v] = "ack_stop" /\ request[v] = None

\* The except clause of worker w handles a non-quota error in this step.
OtherErrorStep(w) ==
    /\ pc[w] \in {"call", "skip_ack"}
    /\ pc'[w] # pc[w]
    /\ error_msg'[w] = "other"

\* Worker w completes the skip branch's task_done() in this step.
SkipStep(w) == pc[w] = "skip_ack" /\ pc'[w] = "finally" /\ flow'[w] = "continue"

SkipAckStep(w) == pc[w] = "skip_ack" /\ pc'[w] # "skip_ack"

\* Worker w passes through the finally clause on the skip branch's
\* `continue` in this step.
SkipFinallyStep(w) == pc[w] = "finally" /\ flow[w] = "continue" /\ pc'[w] # "finally"

\* C21: a worker whose request already has its response file acknowledges
\* the item once and fetches again: over the two steps of the skip,
\* unfinished_tasks goes down by one, the worker ends at the fetch, and the
\* queue's content, the files, the persisted requests, consecutive_errors
\* and completed_counter are unchanged.
C21_DuplicateSkipFrame ==
    [][\A w \in Workers :
          /\ SkipAckStep(w) =>
                 /\ pc'[w] = "finally"
                 /\ unfinished_tasks' = unfinished_tasks - 1
          /\ SkipFinallyStep(w) =>
                 /\ pc'[w] = "fetch"
                 /\ unfinished_tasks' = unfinished_tasks
          /\ (SkipAckStep(w) \/ SkipFinallyStep(w)) =>
                 /\ request_queue' = request_queue
                 /\ files' = files
                 /\ processed' = processed
                 /\ consecutive_errors' = consecutive_errors
                 /\ completed_counter' = completed_counter]_vars


\* C22: requests with distinct image_ids have distinct response files: the
\* response file of a persisted request is the location of no other
\* request, so a worker skips a request only when that request itself has
\* its result, never because of the response file of another request.
C22_LocationCollisionFree ==
    /\ \A j \in processed :
           \A k \in Jobs :
               ImageId(j) # ImageId(k) =>
                   GeneratedResponseFile(j) # GeneratedResponseFile(k)
    /\ \A w \in Workers :
           pc[w] = "skip_ack" =>
               \/ request[w] \in processed
               \/ GeneratedResponseFile(request[w]) \in prefiles


\* The float a is below, or at least, the rational num/den.
FloatLessRatio(a, num, den) ==
    IF a.e < 0 THEN a.m * den < num * 2^(0 - a.e) ELSE a.m * 2^(a.e) * den < num
FloatGeqRatio(a, num, den) == ~FloatLessRatio(a, num, den)

\* The except clause of worker w puts the request back in this step.
RetryStep(w) ==
    /\ QuotaErrorStep(w) \/ OtherErrorStep(w)
    /\ pc'[w] = "finally"

\* Worker w leaves the finally clause for its next fetch in this step.
BackToFetchStep(w) == pc[w] = "finally" /\ pc'[w] = "fetch"

\* The sleeps of worker w's iteration are in order after this step: the
\* step adds one sleep of the kind, and in a failed iteration the backoff is
\* the only sleep before the courtesy sleep.
SleepsInOrder(w, kind) ==
    /\ Len(sleeps'[w]) = Len(sleeps[w]) + 1
    /\ SubSeq(sleeps'[w], 1, Len(sleeps[w])) = sleeps[w]
    /\ sleeps'[w][Len(sleeps'[w])][1] = kind
    /\ kind = "backoff" => sleeps[w] = <<>>
    /\ kind = "courtesy" =>
           IF error_msg[w] = "none" THEN sleeps[w] = <<>>
           ELSE Len(sleeps[w]) = 1 /\ sleeps[w][1][1] = "backoff"

\* The delay of the sleep worker w has just made.
LastDelay(w) == sleeps'[w][Len(sleeps'[w])][2]

\* C23: every attempt that is put back is followed by a sleep of at least 4
\* and less than 8 seconds, and every iteration that returns to the fetch
\* ends with a sleep of at least 0.05 and less than 0.10 seconds, the
\* backoff before the courtesy sleep.
C23_DelaysHalfOpen ==
    [][\A w \in Workers :
          /\ RetryStep(w) =>
                 /\ SleepsInOrder(w, "backoff")
                 /\ FloatGeqRatio(LastDelay(w), 4, 1)
                 /\ FloatLessRatio(LastDelay(w), 8, 1)
          /\ BackToFetchStep(w) =>
                 /\ SleepsInOrder(w, "courtesy")
                 /\ FloatGeqRatio(LastDelay(w), 5, 100)
                 /\ FloatLessRatio(LastDelay(w), 10, 100)]_vars

\* C23 as the code has it: the delays are computed in floating point, where
\* a + a * random.random() rounds up to 2a for the largest outcomes; the
\* backoff is between 4 and 8 seconds and the courtesy sleep between the
\* floats 0.05 and 0.10, both ends included; the order is as claimed.
C23_DelaysClosed ==
    [][\A w \in Workers :
          /\ RetryStep(w) =>
                 /\ SleepsInOrder(w, "backoff")
                 /\ FloatLeq(FloatInt(4), LastDelay(w))
                 /\ FloatLeq(LastDelay(w), FloatInt(8))
          /\ BackToFetchStep(w) =>
                 /\ SleepsInOrder(w, "courtesy")
                 /\ FloatLeq(FloatLit(5, 100), LastDelay(w))
                 /\ FloatLeq(LastDelay(w), FloatLit(10, 100))]_vars

\* A worker is back at the fetch after a failed attempt whose backoff sleep
\* was 8 seconds, followed by the courtesy sleep.
C23_Witness ==
    \E w \in Workers :
        /\ pc[w] = "fetch"
        /\ Len(sleeps[w]) = 2
        /\ sleeps[w][1][1] = "backoff"
        /\ FloatLeq(FloatInt(8), sleeps[w][1][2])
        /\ sleeps[w][2][1] = "courtesy"


\* Worker w holds an item it dequeued and has made no task_done() call for.
HoldsUnacknowledged(w) ==
    /\ pc[w] \in {"ack_stop", "check", "skip_ack", "call", "increment",
                  "drop_ack", "finally"}
    /\ ack_calls[w] = 0

\* C24: unfinished_tasks equals the number of items in request_queue plus the
\* number of workers that hold a dequeued item they have not acknowledged (a
\* worker that has put its request back and not yet reached the finally
\* clause's task_done() still counts as holding the failed attempt).
C24_QueueAccounting ==
    unfinished_tasks =
        Len(request_queue) + Cardinality({w \in Workers : HoldsUnacknowledged(w)})


\* Number of occurrences of item x in queue q.
Copies(q, x) == Len(SelectSeq(q, LAMBDA y : y = x))

\* Worker w is processing request j: it has dequeued j and has neither
\* finished with it (response written and counted, or skipped) nor put it
\* back nor dropped it.
Processes(w, j) ==
    /\ request[w] = j
    /\ pc[w] \in {"check", "skip_ack", "call", "increment", "drop_ack"}

\* C25: within one run every request is, in total, at most once in
\* request_queue or being processed by a worker: it never occurs twice in
\* the queue, never waits in the queue while a worker processes it, and is
\* never processed (in particular never sent to the API) by two workers at once.
C25_NoDuplicateWork ==
    \A j \in Jobs :
        Copies(request_queue, j)
            + Cardinality({w \in Workers : Processes(w, j)}) <= 1

\* A request that one worker put back after a failure is inside the API call
\* of another worker while the first worker is still in its finally clause,
\* or waits in the queue again while another worker is inside the API call
\* for a different request.
C25_Witness ==
    \E j \in Jobs, w1 \in Workers, w2 \in Workers :
        /\ w1 # w2
        /\ request[w1] = j /\ pc[w1] = "finally" /\ error_msg[w1] # "none"
        /\ \/ Invokes(w2, j)
           \/ /\ Copies(request_queue, j) = 1
              /\ \E i \in Jobs \ {j} : Invokes(w2, i)


\* Worker w dequeues a stop signal in this step.
DequeuesStopSignal(w) == pc[w] = "fetch" /\ pc'[w] = "ack_stop"

\* Worker w leaves the fetch in this step.
LeavesFetch(w) == pc[w] = "fetch" /\ pc'[w] # "fetch"

\* The KeyboardInterrupt is raised in this step.
InterruptStep == ~interrupted /\ interrupted'

====
